---- MODULE Spec2Model ----
(***************************************************************************)
(* ELL build checker (src/ell-checker.py).                                 *)
(*                                                                         *)
(* One invocation of main() is a process p that walks through the body of  *)
(* main() one call at a time.  The marker file and the head of the tracked *)
(* repository are shared by all invocations.                               *)
(* Everything outside the script (file existence, exit codes of the        *)
(* commands it launches, the SMTP server) is chosen nondeterministically.  *)
(***************************************************************************)
EXTENDS Integers, Sequences, FiniteSets, TLC

\* ---------------------------------------------------------------- bounds
\* longest marker file content that is enumerated
MaxLen == 2
\* number of invocations of main() in one behaviour
MaxRuns == 2
\* longest value of the maintainers key that is enumerated
MaxValue == 3

\* ------------------------------------------------------------ strings
\* A string is a sequence of one-character strings.
HexChars == {"a", "b"}
Whitespace == {" ", "\n"}
Chars == HexChars \cup Whitespace

Strings(n) == UNION {[1..k -> Chars] : k \in 0..n}

\* commit ids as git reports them: non-empty, hexadecimal, no whitespace
Heads == {<<"a">>, <<"b">>}

\* a marker file that does not exist
NoFile == <<"ENOENT">>

\* Python's None, as str.format() renders it
None == "None"

Min(S) == CHOOSE x \in S : \A y \in S : x <= y

\* str.rstrip(): drop every trailing whitespace character
RECURSIVE rstrip(_)
rstrip(s) ==
    IF s = <<>> THEN s
    ELSE IF s[Len(s)] \in Whitespace THEN rstrip(SubSeq(s, 1, Len(s) - 1))
    ELSE s

\* file.readline(): the first line, its line terminator included
readline(s) ==
    LET nl == {i \in 1..Len(s) : s[i] = "\n"}
    IN  IF nl = {} THEN s ELSE SubSeq(s, 1, Min(nl))

\* a reader that skips the first line
read_second_line(content) ==
    readline(SubSeq(content, Len(readline(content)) + 1, Len(content)))

\* read_sha_from_file: the first line of the file
read_sha_from_file(content) == readline(content)

\* a writer that terminates the line
write_line(new_sha) == new_sha \o <<"\n">>

\* write_sha_to_file: the file holds exactly new_sha afterwards
write_sha_to_file(new_sha) == new_sha

\* a comparison that does not strip
compare_exact(sha1, sha2) == sha1 = sha2

\* compare_sha: equality up to trailing whitespace
compare_sha(sha1, sha2) == rstrip(sha1) = rstrip(sha2)

\* str.splitlines(): the lines of s without their terminators; a final
\* terminator opens no further line
RECURSIVE splitlines(_)
splitlines(s) ==
    IF s = <<>> THEN <<>>
    ELSE LET line == readline(s)
             text == IF line[Len(line)] = "\n"
                     THEN SubSeq(line, 1, Len(line) - 1) ELSE line
         IN  <<text>> \o splitlines(SubSeq(s, Len(line) + 1, Len(s)))

\* sep.join(parts)
RECURSIVE join(_, _)
join(sep, parts) ==
    IF parts = <<>> THEN <<>>
    ELSE IF Len(parts) = 1 THEN parts[1]
    ELSE parts[1] \o sep \o join(sep, Tail(parts))

\* s.split(sep) for a one-character separator: never an empty list
RECURSIVE split(_, _)
split(s, sep) ==
    LET at == {i \in 1..Len(s) : s[i] = sep}
    IN  IF at = {} THEN <<s>>
        ELSE <<SubSeq(s, 1, Min(at) - 1)>>
             \o split(SubSeq(s, Min(at) + 1, Len(s)), sep)

\* ---------------------------------------------------- notification config
\* the characters of an address, and of the value of the maintainers key
AddrChars == {"x", "y"}
ValueChars == AddrChars \cup {",", "\n"}

\* the values configparser can return for a key: lines joined by "\n",
\* trailing empty lines dropped
Values(n) ==
    {s \in UNION {[1..k -> ValueChars] : k \in 0..n} :
        s = <<>> \/ s[Len(s)] # "\n"}

\* the keys of the email section that decide the recipients; only_maintainers
\* is "absent" when the key is not in the section
EmailConfig(om, m) ==
    [only_maintainers |-> om, maintainers |-> m, default_to |-> <<"d">>]

OnlyMaintainers == {"absent", "yes", "no"}

EmailConfigs(n) ==
    {EmailConfig(om, m) : om \in OnlyMaintainers, m \in Values(n)}

\* the configurations the runs of main() are given
SampleConfigs ==
    {EmailConfig("yes", <<"x", ",", "\n", "y">>), EmailConfig("no", <<"x">>)}

\* a recipient list that takes a line break for a separator as well
receivers_either_separator(config) ==
    IF config.only_maintainers = "yes"
    THEN split(join(<<",">>, splitlines(config.maintainers)), ",")
    ELSE <<config.default_to>>

\* lines 50-57: the recipients send_email computes
receivers(config) ==
    IF config.only_maintainers = "yes"
    THEN split(join(<<>>, splitlines(config.maintainers)), ",")
    ELSE <<config.default_to>>

\* ------------------------------------------------------- external world
Procs == {1, 2}

\* run_cmd: -1 when the command cannot be launched (OSError), otherwise the
\* return code of the process
LaunchFailed == -1
RetCodes == {LaunchFailed, 0, 1}

\* the stderr run_cmd returns with return code r of command cmd
StderrOf(cmd, r) == IF r = LaunchFailed THEN None ELSE cmd \o " stderr"

\* `git log -1 --no-decorate` of commit h
LogOf(h) == <<"commit ">> \o h

VARIABLES
    sha_file,   \* content of the marker file (head.sha), or NoFile
    head,       \* head commit id of the tracked repository
    runs,       \* invocations of main() started so far
    hist,       \* what earlier runs did (no state of the program)
    proc        \* per invocation: position in main() and its locals

vars == <<sha_file, head, runs, hist, proc>>
shared == <<sha_file, head, runs, hist>>

\* ------------------------------------------------------------ one run
Idle ==
    [pc |-> "idle", email_on_success |-> FALSE, start_file |-> <<>>,
     prior |-> <<>>,
     last_known_sha |-> <<>>, src_head_sha |-> <<>>, top_log |-> <<>>,
     calls |-> <<>>, writes |-> 0, built |-> FALSE, ret |-> 0,
     output_err |-> None, mails |-> <<>>, session |-> "unbound",
     sent |-> FALSE, error |-> "", exit_status |-> 0, abnormal |-> FALSE,
     email_config |-> EmailConfig("absent", <<>>), receivers |-> <<>>]

\* parse_args: the state of main() after its arguments are parsed.
\* start_file is no local of main: it remembers the marker file as the run
\* found it, for the properties that compare before and after; nor is
\* prior, the head id at which the last change was detected before this run
\* started (empty when there was none).
InitRun(eos, file) ==
    [Idle EXCEPT !.pc = "parse_config", !.email_on_success = eos,
                 !.start_file = file]

Set(p, r) == proc' = [proc EXCEPT ![p] = r]

\* sys.exit(code)
SysExit(r, code) == [r EXCEPT !.pc = "done", !.exit_status = code]

\* an exception nobody catches: traceback, interpreter exit status 1
Uncaught(r) == [r EXCEPT !.pc = "done", !.exit_status = 1, !.abnormal = TRUE]

\* a fatal error that is logged and exits with status 0
fatal_exit_zero(r, what) == SysExit([r EXCEPT !.error = what], 0)

\* lines 261-262, 266-267, 270-271, 276-277: logger.error, sys.exit(1)
Fatal(r, what) == SysExit([r EXCEPT !.error = what], 1)

\* run_cmd(cmd) returned rc
Called(r, cmd, rc) ==
    [r EXCEPT !.calls = Append(@, [cmd |-> cmd, ret |-> rc, raised |-> FALSE])]

\* run_cmd(cmd) raised something else than OSError
Raised(r, cmd) ==
    [r EXCEPT !.calls = Append(@, [cmd |-> cmd, ret |-> 0, raised |-> TRUE])]

\* hist.checked: the head id of the most recent change detection;
\* hist.builds: the run_checkbuild calls since the head last moved;
\* hist.raced: a run was started while another was in progress, since then.
NoHist == [checked |-> <<>>, builds |-> 0, raced |-> FALSE]

Running(p) == proc[p].pc \notin {"idle", "done"}

Init ==
    /\ sha_file \in Strings(MaxLen) \cup {NoFile}
    /\ head \in Heads
    /\ runs = 0
    /\ hist = NoHist
    /\ proc = [p \in Procs |-> Idle]

\* the scheduler starts main()
Start(p) ==
    /\ proc[p].pc \in {"idle", "done"}
    /\ runs < MaxRuns
    /\ runs' = runs + 1
    /\ \E eos \in BOOLEAN :
          Set(p, [InitRun(eos, sha_file) EXCEPT !.prior = hist.checked])
    /\ hist' = [hist EXCEPT !.raced = @ \/ \E q \in Procs \ {p} : Running(q)]
    /\ UNCHANGED <<sha_file, head>>

\* The tracked repository receives a new commit.  A run reads the head once
\* (line 281), so a commit arriving while a run is in progress is seen by it
\* exactly as one arriving just before or just after the run: only those
\* are enumerated.  The head may move to any other commit id, any number of
\* times.
Advance ==
    /\ \A p \in Procs : ~Running(p)
    /\ \E h \in Heads \ {head} : head' = h
    /\ hist' = [hist EXCEPT !.builds = 0, !.raced = FALSE]
    /\ UNCHANGED <<sha_file, runs, proc>>

\* lines 259-262: parse_config returns None when the file does not exist,
\* otherwise the sections of the file
ParseConfig(p) ==
    /\ proc[p].pc = "parse_config"
    /\ \/ Set(p, Fatal(proc[p], "config"))
       \/ \E config \in SampleConfigs :
             Set(p, [proc[p] EXCEPT !.pc = "check_sha_file",
                                    !.email_config = config])
    /\ UNCHANGED shared

\* lines 265-267
CheckShaFile(p) ==
    /\ proc[p].pc = "check_sha_file"
    /\ Set(p, IF sha_file # NoFile THEN [proc[p] EXCEPT !.pc = "check_src"]
              ELSE Fatal(proc[p], "sha_file"))
    /\ UNCHANGED shared

\* lines 269-271
CheckSrc(p) ==
    /\ proc[p].pc = "check_src"
    /\ \E exists \in BOOLEAN :
          Set(p, IF exists THEN [proc[p] EXCEPT !.pc = "read_sha"]
                 ELSE Fatal(proc[p], "src"))
    /\ UNCHANGED shared

\* lines 274-278
ReadSha(p) ==
    /\ proc[p].pc = "read_sha"
    /\ LET sha == read_sha_from_file(sha_file)
       IN  Set(p, IF sha = <<>> THEN Fatal(proc[p], "empty_sha")
                  ELSE [proc[p] EXCEPT !.pc = "get_repo_info",
                                       !.last_known_sha = sha])
    /\ UNCHANGED shared

\* line 281: get_repo_info raises when src is no usable working copy
GetRepoInfo(p) ==
    /\ proc[p].pc = "get_repo_info"
    /\ \E ok \in BOOLEAN :
          Set(p, IF ok THEN [proc[p] EXCEPT !.pc = "compare_sha",
                                            !.src_head_sha = head]
                 ELSE Uncaught(proc[p]))
    /\ UNCHANGED shared

\* a change detection that takes every head for new
CompareShaNeverSame(p) ==
    /\ proc[p].pc = "compare_sha"
    /\ Set(p, [proc[p] EXCEPT !.pc = "git_log"])
    /\ hist' = [hist EXCEPT !.checked = proc[p].src_head_sha]
    /\ UNCHANGED <<sha_file, head, runs>>

\* lines 284-286
CompareSha(p) ==
    /\ proc[p].pc = "compare_sha"
    /\ LET same == compare_sha(proc[p].src_head_sha, proc[p].last_known_sha)
       IN  /\ Set(p, IF same THEN SysExit(proc[p], 0)
                     ELSE [proc[p] EXCEPT !.pc = "git_log"])
           /\ hist' = IF same THEN hist
                      ELSE [hist EXCEPT !.checked = proc[p].src_head_sha]
    /\ UNCHANGED <<sha_file, head, runs>>

\* lines 289-294: the top commit log, or the commit id when git log fails
GitLog(p) ==
    /\ proc[p].pc = "git_log"
    /\ \E rc \in RetCodes :
          LET r == Called(proc[p], "git log", rc)
          IN  Set(p, [r EXCEPT !.pc = "write_open",
                               !.top_log = IF rc # 0 THEN r.src_head_sha
                                           ELSE LogOf(r.src_head_sha)])
    /\ UNCHANGED shared

\* a main that never gets to write_sha_to_file
WriteSkipped(p) ==
    /\ proc[p].pc = "write_open"
    /\ Set(p, [proc[p] EXCEPT !.pc = "git_commit"])
    /\ UNCHANGED shared

\* line 151: open(sha_file, 'w') truncates the file
WriteOpen(p) ==
    /\ proc[p].pc = "write_open"
    /\ sha_file' = <<>>
    /\ Set(p, [proc[p] EXCEPT !.pc = "write_data"])
    /\ UNCHANGED <<head, runs, hist>>

\* a write that stays in the buffer while main goes on
WriteDeferred(p) ==
    /\ proc[p].pc = "write_data"
    /\ Set(p, [proc[p] EXCEPT !.pc = "git_commit", !.writes = @ + 1])
    /\ UNCHANGED shared

\* lines 152, 297: f.write(new_sha) and close; the function returns None, so
\* the branch of line 298 is never taken
WriteData(p) ==
    /\ proc[p].pc = "write_data"
    /\ sha_file' = write_sha_to_file(proc[p].src_head_sha)
    /\ Set(p, [proc[p] EXCEPT !.pc = "git_commit", !.writes = @ + 1])
    /\ UNCHANGED <<head, runs, hist>>

\* a main that gives up when the marker cannot be committed
GitCommitBlocks(p) ==
    /\ proc[p].pc = "git_commit"
    /\ \E rc \in RetCodes :
          LET r == Called(proc[p], "git commit", rc)
          IN  Set(p, IF rc # 0 THEN SysExit([r EXCEPT !.error = "commit"], 1)
                     ELSE [r EXCEPT !.pc = "git_push"])
    /\ UNCHANGED shared

\* lines 196-203, 302: git commit of the marker file; commit_file returns
\* False when it fails and main only logs that
GitCommit(p) ==
    /\ proc[p].pc = "git_commit"
    /\ \E rc \in RetCodes :
          Set(p, [Called(proc[p], "git commit", rc) EXCEPT
                     !.pc = IF rc # 0 THEN "configure" ELSE "git_push"])
    /\ UNCHANGED shared

\* lines 205-212: git push, only after a successful commit
GitPush(p) ==
    /\ proc[p].pc = "git_push"
    /\ \E rc \in RetCodes :
          Set(p, [Called(proc[p], "git push", rc) EXCEPT !.pc = "configure"])
    /\ UNCHANGED shared

\* a run_checkbuild that goes on to make whatever configure returned
configure_ignored(r, rc) == [r EXCEPT !.pc = "make"]

\* lines 177-183: a nonzero configure step ends run_checkbuild with (1, stderr)
configure_returned(r, rc) ==
    IF rc # 0
    THEN [r EXCEPT !.pc = "checked", !.built = TRUE, !.ret = 1,
                   !.output_err = StderrOf("configure", rc)]
    ELSE [r EXCEPT !.pc = "make"]

\* lines 185-192: a nonzero make ends it with (2, stderr), else (0, None)
make_returned(r, rc) ==
    IF rc # 0
    THEN [r EXCEPT !.pc = "checked", !.built = TRUE, !.ret = 2,
                   !.output_err = StderrOf("make", rc)]
    ELSE [r EXCEPT !.pc = "checked", !.built = TRUE, !.ret = 0,
                   !.output_err = None]

\* a main that turns an exception of run_checkbuild into a configure failure
build_raised_reported(r) ==
    [r EXCEPT !.pc = "checked", !.built = TRUE, !.ret = 1,
              !.error = "exception"]

\* lines 308-310: anything raised inside run_checkbuild is logged and re-raised
build_raised(r) == Uncaught([r EXCEPT !.error = "exception"])

\* lines 177-178, 306-307: ./bootstrap-configure
Configure(p) ==
    /\ proc[p].pc = "configure"
    /\ \/ \E rc \in RetCodes :
             Set(p, configure_returned(Called(proc[p], "configure", rc), rc))
       \/ Set(p, build_raised(Raised(proc[p], "configure")))
    /\ hist' = [hist EXCEPT !.builds = @ + 1]
    /\ UNCHANGED <<sha_file, head, runs>>

\* line 185: make
Make(p) ==
    /\ proc[p].pc = "make"
    /\ \/ \E rc \in RetCodes :
             Set(p, make_returned(Called(proc[p], "make", rc), rc))
       \/ Set(p, build_raised(Raised(proc[p], "make")))
    /\ UNCHANGED shared

\* report_result (lines 88-97): the message is composed and send_email called
report_result(r, result, output) ==
    [r EXCEPT !.pc = "send_email",
              !.mails = Append(@, [result |-> result, output |-> output,
                                   top_log |-> r.top_log])]

\* a main that reports every result, whatever the flag
checked_always_reports(r) ==
    IF r.ret = 0 THEN report_result(r, "SUCCESS", "success")
    ELSE report_result(r, "FAIL", r.output_err)

\* a main that lets the flag gate the failure report too
checked_flag_gates_failure(r) ==
    IF r.email_on_success
    THEN report_result(r, IF r.ret = 0 THEN "SUCCESS" ELSE "FAIL",
                       IF r.ret = 0 THEN "success" ELSE r.output_err)
    ELSE SysExit(r, r.ret)

\* a main that builds a second time after a failure, before it reports
checked_retries(r) ==
    IF /\ r.ret # 0
       /\ Cardinality({i \in 1..Len(r.calls) : r.calls[i].cmd = "configure"}) < 2
    THEN [r EXCEPT !.pc = "configure", !.built = FALSE]
    ELSE IF r.ret = 0 /\ ~r.email_on_success THEN SysExit(r, r.ret)
    ELSE report_result(r, IF r.ret = 0 THEN "SUCCESS" ELSE "FAIL",
                       IF r.ret = 0 THEN "success" ELSE r.output_err)

\* lines 311-326: what main does with the result of run_checkbuild
checked(r) ==
    IF r.ret = 0
    THEN IF r.email_on_success THEN report_result(r, "SUCCESS", "success")
         ELSE SysExit(r, r.ret)
    ELSE report_result(r, "FAIL", r.output_err)

Checked(p) ==
    /\ proc[p].pc = "checked"
    /\ Set(p, checked(proc[p]))
    /\ UNCHANGED shared

\* report_result returned to main: lines 318 and 326
reported(r) == SysExit(r, r.ret)

\* lines 50-68: the recipients are resolved and the message is composed;
\* without EMAIL_TOKEN send_email returns before any session
SendEmail(p) ==
    /\ proc[p].pc = "send_email"
    /\ LET r == [proc[p] EXCEPT !.receivers = receivers(proc[p].email_config)]
       IN  \E token \in BOOLEAN :
              Set(p, IF token THEN [r EXCEPT !.pc = "smtp_connect"]
                     ELSE reported([r EXCEPT !.error = "no_token"]))
    /\ UNCHANGED shared

\* lines 79-80: except Exception logs, then the finally clause runs
smtp_failed(r) == [r EXCEPT !.pc = "smtp_finally", !.error = "smtp"]

\* line 71: session = smtplib.SMTP(server, port); session is bound only if
\* the constructor returns
SmtpConnect(p) ==
    /\ proc[p].pc = "smtp_connect"
    /\ \E ok \in BOOLEAN :
          Set(p, IF ok THEN [proc[p] EXCEPT !.pc = "smtp_starttls",
                                            !.session = "open"]
                 ELSE smtp_failed(proc[p]))
    /\ UNCHANGED shared

\* lines 72-75: ehlo, starttls (unless the configuration says starttls =
\* no), ehlo; any of them may raise
SmtpStartTls(p) ==
    /\ proc[p].pc = "smtp_starttls"
    /\ \E ok \in BOOLEAN :
          Set(p, IF ok THEN [proc[p] EXCEPT !.pc = "smtp_login"]
                 ELSE smtp_failed(proc[p]))
    /\ UNCHANGED shared

\* line 76: login with the token
SmtpLogin(p) ==
    /\ proc[p].pc = "smtp_login"
    /\ \E ok \in BOOLEAN :
          Set(p, IF ok THEN [proc[p] EXCEPT !.pc = "smtp_sendmail"]
                 ELSE smtp_failed(proc[p]))
    /\ UNCHANGED shared

\* lines 77-78: sendmail
SmtpSendmail(p) ==
    /\ proc[p].pc = "smtp_sendmail"
    /\ \E ok \in BOOLEAN :
          Set(p, IF ok THEN [proc[p] EXCEPT !.pc = "smtp_finally",
                                            !.sent = TRUE]
                 ELSE smtp_failed(proc[p]))
    /\ UNCHANGED shared

\* lines 81-83: finally: session.quit().  When the constructor of line 71
\* raised, session was never bound and the name lookup raises
\* UnboundLocalError out of send_email, report_result and main.
smtp_finally(r) ==
    IF r.session = "unbound" THEN Uncaught(r)
    ELSE reported([r EXCEPT !.session = "closed"])

SmtpFinally(p) ==
    /\ proc[p].pc = "smtp_finally"
    /\ Set(p, smtp_finally(proc[p]))
    /\ UNCHANGED shared

Next ==
    \/ Advance
    \/ \E p \in {1} :
        \/ Start(p)
        \/ ParseConfig(p)
        \/ CheckShaFile(p)
        \/ CheckSrc(p)
        \/ ReadSha(p)
        \/ GetRepoInfo(p)
        \/ CompareSha(p)
        \/ GitLog(p)
        \/ WriteOpen(p)
        \/ WriteData(p)
        \/ GitCommit(p)
        \/ GitPush(p)
        \/ Configure(p)
        \/ Make(p)
        \/ Checked(p)
        \/ SendEmail(p)
        \/ SmtpConnect(p)
        \/ SmtpStartTls(p)
        \/ SmtpLogin(p)
        \/ SmtpSendmail(p)
        \/ SmtpFinally(p)

Spec == Init /\ [][Next]_vars

\* ------------------------------------------- the marker file on its own
\* write_sha_to_file(p, x) for an arbitrary non-empty string x over an
\* arbitrary file, then read_sha_from_file(p).  x is held in src_head_sha,
\* the argument main passes, and the value read in last_known_sha.
InitRoundTrip ==
    /\ sha_file \in Strings(MaxLen) \cup {NoFile}
    /\ head \in Heads
    /\ runs = 0
    /\ hist = NoHist
    /\ \E x \in Strings(MaxLen) \ {<<>>} :
          proc = [p \in Procs |->
                    IF p = 1 THEN [Idle EXCEPT !.pc = "write_open",
                                               !.src_head_sha = x]
                    ELSE Idle]

\* lines 144-148, right after write_sha_to_file returned
ReadBack(p) ==
    /\ proc[p].pc = "git_commit"
    /\ Set(p, [proc[p] EXCEPT !.pc = "read_back",
                              !.last_known_sha = read_sha_from_file(sha_file)])
    /\ UNCHANGED shared

NextRoundTrip == WriteOpen(1) \/ WriteData(1) \/ ReadBack(1)

SpecRoundTrip == InitRoundTrip /\ [][NextRoundTrip]_vars

\* --------------------------------------------- send_email on its own
\* send_email(config, subject, message) for every configuration of the
\* recipients, called by report_result after a failed build
InitRecipients ==
    /\ sha_file \in Heads
    /\ head = sha_file
    /\ runs = 0
    /\ hist = NoHist
    /\ \E config \in EmailConfigs(MaxValue) :
          proc = [p \in Procs |->
                    IF p = 1
                    THEN report_result(
                             [Idle EXCEPT !.email_config = config,
                                          !.built = TRUE, !.ret = 1],
                             "FAIL", None)
                    ELSE Idle]

NextRecipients ==
    \/ SendEmail(1)
    \/ SmtpConnect(1)
    \/ SmtpStartTls(1)
    \/ SmtpLogin(1)
    \/ SmtpSendmail(1)
    \/ SmtpFinally(1)

SpecRecipients == InitRecipients /\ [][NextRecipients]_vars

\* ------------------------------------------- a crash while writing
\* The process is killed inside write_sha_to_file (lines 150-152): before
\* open() was called, or after open() truncated the file and before the
\* data reached it.  137 is the status the shell reports for SIGKILL.
Crash(p) ==
    /\ proc[p].pc \in {"write_open", "write_data"}
    /\ Set(p, [proc[p] EXCEPT !.pc = "done", !.error = "killed",
                              !.exit_status = 137, !.abnormal = TRUE])
    /\ UNCHANGED shared

NextCrash ==
    \/ Next
    \/ \E p \in {1} : Crash(p)

SpecCrash == Init /\ [][NextCrash]_vars

\* ------------------------------------------------- overlapping runs
\* the commands of run_checkbuild
BuildCmds == {"configure", "make"}

\* Nothing in main() keeps a second invocation from starting while one is
\* in progress: both processes run main() on the same marker file and the
\* same tracked repository, their steps interleaved in any order.
InitRace ==
    /\ sha_file \in Heads
    /\ head \in Heads
    /\ runs = 0
    /\ hist = NoHist
    /\ proc = [p \in Procs |-> Idle]

\* The environment of the overlapping runs: the configuration file, the
\* marker file and the working copy exist, recipients are the default
\* address, every command can be launched and returns, the git commands
\* succeed.  The flag, the results of the build steps, the credential and
\* the SMTP server stay free.
Ordinary(p) ==
    LET r == proc[p]
    IN  /\ r.error \in {"", "empty_sha", "no_token", "smtp"}
        /\ r.abnormal => r.error = "smtp"
        /\ r.email_config.only_maintainers # "yes"
        /\ \A i \in 1..Len(r.calls) :
              /\ ~r.calls[i].raised
              /\ r.calls[i].ret # LaunchFailed
              /\ r.calls[i].cmd \notin BuildCmds => r.calls[i].ret = 0

NextRace ==
    \/ Advance
    \/ \E p \in Procs :
        \/ Start(p) /\ Ordinary(p)'
        \/ ParseConfig(p) /\ Ordinary(p)'
        \/ CheckShaFile(p) /\ Ordinary(p)'
        \/ CheckSrc(p) /\ Ordinary(p)'
        \/ ReadSha(p) /\ Ordinary(p)'
        \/ GetRepoInfo(p) /\ Ordinary(p)'
        \/ CompareSha(p) /\ Ordinary(p)'
        \/ GitLog(p) /\ Ordinary(p)'
        \/ WriteOpen(p) /\ Ordinary(p)'
        \/ WriteData(p) /\ Ordinary(p)'
        \/ GitCommit(p) /\ Ordinary(p)'
        \/ GitPush(p) /\ Ordinary(p)'
        \/ Configure(p) /\ Ordinary(p)'
        \/ Make(p) /\ Ordinary(p)'
        \/ Checked(p) /\ Ordinary(p)'
        \/ SendEmail(p) /\ Ordinary(p)'
        \/ SmtpConnect(p) /\ Ordinary(p)'
        \/ SmtpStartTls(p) /\ Ordinary(p)'
        \/ SmtpLogin(p) /\ Ordinary(p)'
        \/ SmtpSendmail(p) /\ Ordinary(p)'
        \/ SmtpFinally(p) /\ Ordinary(p)'

SpecRace == InitRace /\ [][NextRace]_vars

\* ------------------------------------------------------------ properties
Done(r) == r.pc = "done"

\* the run captured a snapshot of the tracked repository
Inspected(r) == r.src_head_sha # <<>>

\* the run_cmd calls of run r for command cmd
CallsOf(r, cmd) == {i \in 1..Len(r.calls) : r.calls[i].cmd = cmd}

BuildCalls(r) == {i \in 1..Len(r.calls) : r.calls[i].cmd \in BuildCmds}

\* C1: no-change run.  When the persisted marker (the whole file as the run
\* found it, or the value read from it) and the head id of the snapshot are
\* equal up to trailing whitespace, the run is over as soon as it has
\* compared them: exit status 0, no marker write, no command launched (no
\* git log, no tracking commit, no build step), no notification attempt,
\* and the marker file is what it was.
C1_NoChangeRun ==
    \A p \in Procs :
        LET r == proc[p]
        IN  ( /\ Inspected(r)
              /\ r.pc # "compare_sha"
              /\ \/ rstrip(r.start_file) = rstrip(r.src_head_sha)
                 \/ rstrip(r.last_known_sha) = rstrip(r.src_head_sha) )
            => /\ Done(r)
               /\ r.exit_status = 0
               /\ ~r.abnormal
               /\ r.writes = 0
               /\ r.calls = <<>>
               /\ ~r.built
               /\ r.mails = <<>>
               /\ sha_file = r.start_file

\* a finished run whose marker differed from the head only by a trailing
\* line terminator
C1_Witness ==
    \E p \in Procs :
        /\ Done(proc[p])
        /\ Inspected(proc[p])
        /\ proc[p].last_known_sha = proc[p].src_head_sha \o <<"\n">>
        /\ proc[p].exit_status = 0

\* C2: exactly-once checkpoint.  A run that read marker m and head h with
\* trim(m) # trim(h) has written the marker file exactly once when it ends,
\* and the file then holds exactly h, whatever the outcome of the build (all
\* three results, and an abnormal end) and of the tracking commit; no run
\* writes the marker twice.
C2_ExactlyOnceCheckpoint ==
    \A p \in Procs :
        LET r == proc[p]
        IN  /\ r.writes <= 1
            /\ ( /\ Done(r)
                 /\ Inspected(r)
                 /\ rstrip(r.last_known_sha) # rstrip(r.src_head_sha) )
               => /\ r.writes = 1
                  /\ sha_file = r.src_head_sha

\* a run that failed to commit the marker and then failed to build
C2_Witness ==
    \E p \in Procs :
        LET r == proc[p]
        IN  /\ Done(r)
            /\ r.writes = 1
            /\ r.built
            /\ r.ret = 2
            /\ \E i \in CallsOf(r, "git commit") : r.calls[i].ret # 0
            /\ sha_file = r.src_head_sha
            /\ r.start_file # r.src_head_sha

\* C3: strict step ordering.  make is invoked only after a configure call of
\* the same run that returned zero, each step is invoked at most once, and
\* the result of run_checkbuild is 1 (ConfigureFailed) exactly when
\* configure returned nonzero, 2 (BuildFailed) exactly when configure
\* returned zero and make nonzero, 0 (Success) exactly when both returned
\* zero.
C3_StepOrdering ==
    \A p \in Procs :
        LET r == proc[p]
            cfg == CallsOf(r, "configure")
            mk == CallsOf(r, "make")
            CfgOk == \E i \in cfg : ~r.calls[i].raised /\ r.calls[i].ret = 0
            CfgBad == \E i \in cfg : ~r.calls[i].raised /\ r.calls[i].ret # 0
            MkOk == \E i \in mk : ~r.calls[i].raised /\ r.calls[i].ret = 0
            MkBad == \E i \in mk : ~r.calls[i].raised /\ r.calls[i].ret # 0
        IN  /\ Cardinality(cfg) <= 1
            /\ Cardinality(mk) <= 1
            /\ \A i \in mk : \E j \in cfg : j < i /\ CfgOk
            /\ CfgBad => mk = {}
            /\ r.built =>
                  /\ r.ret \in {0, 1, 2}
                  /\ (r.ret = 1) <=> CfgBad
                  /\ (r.ret = 2) <=> (CfgOk /\ MkBad)
                  /\ (r.ret = 0) <=> (CfgOk /\ MkOk)

\* configure could not be launched: the result is ConfigureFailed and make
\* was not invoked
C3_Witness ==
    \E p \in Procs :
        LET r == proc[p]
        IN  /\ r.built
            /\ r.ret = 1
            /\ \E i \in CallsOf(r, "configure") : r.calls[i].ret = LaunchFailed
            /\ CallsOf(r, "make") = {}

\* C4: notification gating on success.  A finished run whose build steps
\* both succeeded made no delivery attempt when email_on_success is unset,
\* and exactly one when it is set: a SUCCESS report whose output field is
\* the text "success".
C4_SuccessGating ==
    \A p \in Procs :
        LET r == proc[p]
        IN  (Done(r) /\ r.built /\ r.ret = 0) =>
               IF r.email_on_success
               THEN /\ Len(r.mails) = 1
                    /\ r.mails[1].result = "SUCCESS"
                    /\ r.mails[1].output = "success"
               ELSE r.mails = <<>>

\* a successful build with the flag set, reported and sent
C4_Witness ==
    \E p \in Procs :
        LET r == proc[p]
        IN  /\ Done(r) /\ r.built /\ r.ret = 0
            /\ r.email_on_success
            /\ Len(r.mails) = 1
            /\ r.sent

\* C5: failure notification completeness.  A finished run whose configure or
\* make step failed made exactly one delivery attempt, with or without
\* email_on_success: a FAIL report whose output field is the stderr run_cmd
\* returned for the failing step, which is the last step invoked (configure
\* for result 1, make for result 2), never that of configure when make
\* failed.
C5_FailureNotification ==
    \A p \in Procs :
        LET r == proc[p]
            b == BuildCalls(r)
            last == r.calls[Len(r.calls)]
        IN  (Done(r) /\ r.built /\ r.ret # 0) =>
               /\ Len(r.mails) = 1
               /\ r.mails[1].result = "FAIL"
               /\ Len(r.calls) \in b
               /\ last.cmd = (IF r.ret = 1 THEN "configure" ELSE "make")
               /\ last.ret # 0
               /\ r.mails[1].output = StderrOf(last.cmd, last.ret)
               /\ \A i \in b : i # Len(r.calls) =>
                      r.mails[1].output # StderrOf(r.calls[i].cmd, 1)

\* make failed after configure succeeded, the flag unset: the report
\* carries the stderr of make
C5_Witness ==
    \E p \in Procs :
        LET r == proc[p]
        IN  /\ Done(r) /\ r.built /\ r.ret = 2
            /\ ~r.email_on_success
            /\ Len(r.mails) = 1
            /\ r.mails[1].output = StderrOf("make", 1)

\* the exit status of a fatal configuration error
ConfigurationErrorStatus == Fatal(Idle, "config").exit_status

FatalErrors == {"config", "sha_file", "src", "empty_sha"}

\* C6: exit status of a run that reached the build.  It is 0 exactly when
\* both steps succeeded, 1 after a configure failure and 2 after a make
\* failure.
C6_ExitStatusIdentifiesStep ==
    \A p \in Procs :
        LET r == proc[p]
        IN  (Done(r) /\ r.built) =>
               /\ (r.exit_status = 0) <=> (r.ret = 0)
               /\ (r.ret = 1) => (r.exit_status = 1)
               /\ (r.ret = 2) => (r.exit_status = 2)

\* C7: no run that ended normally in ConfigureFailed or BuildFailed has the
\* exit status of a fatal configuration error.
C7_ConfigurationErrorStatusDistinct ==
    \A p \in Procs :
        LET r == proc[p]
        IN  (Done(r) /\ r.built /\ r.ret # 0 /\ ~r.abnormal) =>
               r.exit_status # ConfigurationErrorStatus

\* C8: a notification never changes the exit status.  A finished run that
\* attempted a delivery ended normally, with the exit status the result of
\* run_checkbuild determines, whatever happened to the delivery.
C8_DeliveryNeverChangesExit ==
    \A p \in Procs :
        LET r == proc[p]
        IN  (Done(r) /\ r.mails # <<>>) =>
               /\ ~r.abnormal
               /\ r.exit_status = r.ret

\* C9: fatal configuration errors happen before any state mutation.  A run
\* that found no configuration file, no marker file, no source path or an
\* empty marker is over with exit status 1, and has written no marker,
\* launched no command (no tracking commit, no build step), attempted no
\* notification; the marker file is what it was when the run started.
C9_FatalBeforeMutation ==
    \A p \in Procs :
        LET r == proc[p]
        IN  /\ (r.error \in FatalErrors) =>
               /\ Done(r)
               /\ r.exit_status = 1
               /\ ~r.abnormal
               /\ r.writes = 0
               /\ r.calls = <<>>
               /\ ~r.built
               /\ r.mails = <<>>
               /\ sha_file = r.start_file
            /\ (Done(r) /\ ~Inspected(r) /\ ~r.abnormal) =>
               r.error \in FatalErrors

\* a run stopped by a marker file without content
C9_Witness ==
    \E p \in Procs :
        /\ Done(proc[p])
        /\ proc[p].error = "empty_sha"
        /\ proc[p].start_file = <<>>
        /\ sha_file = <<>>

\* the string x has a line break before its last non-whitespace character
MultiLine(x) == \E i \in 1..Len(rstrip(x)) : x[i] = "\n"

\* C10 as stated: for every non-empty x, the value read back after
\* write_sha_to_file(p, x) is equal to x up to trailing whitespace.
C10_RoundTripEveryString ==
    \A p \in Procs :
        proc[p].pc = "read_back" =>
            compare_sha(proc[p].last_known_sha, proc[p].src_head_sha)

\* C10 amended: the value read back after write_sha_to_file(p, x) is equal
\* to x up to trailing whitespace for every non-empty x without a line break
\* before its last non-whitespace character, and for no other x; whatever
\* the file held before, it holds exactly x after the write.
C10_RoundTripSingleLine ==
    \A p \in Procs :
        LET r == proc[p]
        IN  r.pc = "read_back" =>
               /\ sha_file = r.src_head_sha
               /\ r.last_known_sha = readline(r.src_head_sha)
               /\ compare_sha(r.last_known_sha, r.src_head_sha)
                     <=> ~MultiLine(r.src_head_sha)

\* a commit id followed by a line terminator, written over another marker
\* and read back
C10_Witness ==
    \E p \in Procs :
        /\ proc[p].pc = "read_back"
        /\ proc[p].src_head_sha = <<"a", "\n">>
        /\ proc[p].last_known_sha = <<"a", "\n">>

\* C11: idempotence across serialized runs.  Once a run has detected a
\* change at head h (r.prior = h, whatever that run's build did), a later
\* run never fails on the marker file, and one that finds the head still at
\* h is over at the comparison: exit status 0, no marker write, no command
\* launched (no build, so no retry of a failed one), no notification
\* attempt.  A later run stopped before the comparison (no configuration
\* file, no source path, no usable working copy) has no effect either.
C11_IdempotentUntilAdvance ==
    \A p \in Procs :
        LET r == proc[p]
        IN  r.prior # <<>> =>
               /\ r.error \notin {"sha_file", "empty_sha"}
               /\ ~Inspected(r) =>
                     r.writes = 0 /\ r.calls = <<>> /\ r.mails = <<>>
               /\ (Inspected(r) /\ r.pc # "compare_sha"
                                /\ r.src_head_sha = r.prior) =>
                     /\ Done(r)
                     /\ r.exit_status = 0
                     /\ ~r.abnormal
                     /\ r.writes = 0
                     /\ r.calls = <<>>
                     /\ ~r.built
                     /\ r.mails = <<>>
                     /\ sha_file = r.prior

\* a second run at the head the first run built: a no-change run
C11_Witness ==
    \E p \in Procs :
        LET r == proc[p]
        IN  /\ r.prior # <<>>
            /\ hist.builds = 1
            /\ Done(r)
            /\ Inspected(r)
            /\ r.src_head_sha = r.prior
            /\ r.calls = <<>>
            /\ r.exit_status = 0

\* the program counters of main from run_checkbuild on
FromBuild ==
    {"configure", "make", "checked", "send_email", "smtp_connect",
     "smtp_starttls", "smtp_login", "smtp_sendmail", "smtp_finally"}

\* C12: persist before build.  From the moment the configure step is about
\* to start, through both steps, the report and the end of the run (an
\* abnormal end during the build included), the run has written the marker
\* once and the marker file holds the head id of its snapshot.
C12_PersistBeforeBuild ==
    \A p \in Procs :
        LET r == proc[p]
        IN  (r.pc \in FromBuild \/ BuildCalls(r) # {}) =>
               /\ r.writes = 1
               /\ sha_file = r.src_head_sha

\* a build step raised: the run is over, the marker is already the new head
C12_Witness ==
    \E p \in Procs :
        LET r == proc[p]
        IN  /\ Done(r)
            /\ r.abnormal
            /\ r.error = "exception"
            /\ r.start_file # r.src_head_sha
            /\ sha_file = r.src_head_sha

\* C13: a failure to record the marker in the tracking repository does not
\* block the pipeline.  git push is called only after a git commit of the
\* same run returned zero; a run whose commit or push failed (nonzero
\* return code or launch failure) does not end before it has invoked the
\* configure step; and for every run, whatever commit_file did, the report
\* is attempted exactly when the build failed or email_on_success is set,
\* and the exit status is the result of run_checkbuild unless the run ended
\* abnormally.
C13_CommitFailureDoesNotBlock ==
    \A p \in Procs :
        LET r == proc[p]
            commits == CallsOf(r, "git commit")
            pushes == CallsOf(r, "git push")
            failed == \E i \in commits \cup pushes : r.calls[i].ret # 0
        IN  /\ Cardinality(commits) <= 1
            /\ Cardinality(pushes) <= 1
            /\ \A i \in pushes :
                  \E j \in commits : j < i /\ r.calls[j].ret = 0
            /\ (failed /\ r.pc \notin {"git_push", "configure"}) =>
                  CallsOf(r, "configure") # {}
            /\ (failed /\ r.pc = "git_push") =>
                  \A i \in commits : r.calls[i].ret = 0
            /\ (r.built /\ r.pc # "checked") =>
                  (r.mails # <<>>) <=> (r.ret # 0 \/ r.email_on_success)
            /\ (Done(r) /\ r.built) =>
                  r.exit_status = (IF r.abnormal THEN 1 ELSE r.ret)

\* git commit could not be launched, the build went ahead and succeeded
C13_Witness ==
    \E p \in Procs :
        LET r == proc[p]
        IN  /\ Done(r)
            /\ \E i \in CallsOf(r, "git commit") : r.calls[i].ret = LaunchFailed
            /\ CallsOf(r, "git push") = {}
            /\ r.built
            /\ r.ret = 0
            /\ r.exit_status = 0

\* C14: an exception raised while a build step executes is logged and
\* re-raised.  The run is over at once and abnormally: no later command, no
\* result of run_checkbuild, no notification attempt, no sys.exit(ret).
C14_BuildExceptionReraised ==
    \A p \in Procs :
        LET r == proc[p]
        IN  \A i \in 1..Len(r.calls) :
               r.calls[i].raised =>
                  /\ r.calls[i].cmd \in BuildCmds
                  /\ i = Len(r.calls)
                  /\ Done(r)
                  /\ r.abnormal
                  /\ r.error = "exception"
                  /\ ~r.built
                  /\ r.mails = <<>>

\* make raised after configure had returned zero
C14_Witness ==
    \E p \in Procs :
        LET r == proc[p]
        IN  /\ Done(r)
            /\ r.abnormal
            /\ \E i \in CallsOf(r, "make") : r.calls[i].raised
            /\ \E i \in CallsOf(r, "configure") : r.calls[i].ret = 0
            /\ r.mails = <<>>

\* C20: per-run causal order of side effects.  At every point of every run:
\* at most one marker write, at most one run_checkbuild call (one configure
\* step, one make step) and at most one notification attempt; a build step
\* has been invoked only if the marker was written, and a notification has
\* been attempted only if run_checkbuild has returned its result.
C20_CausalOrder ==
    \A p \in Procs :
        LET r == proc[p]
        IN  /\ r.writes <= 1
            /\ Cardinality(CallsOf(r, "configure")) <= 1
            /\ Cardinality(CallsOf(r, "make")) <= 1
            /\ Len(r.mails) <= 1
            /\ (BuildCalls(r) # {} \/ r.pc \in FromBuild) => r.writes = 1
            /\ r.built => BuildCalls(r) # {}
            /\ r.mails # <<>> => (r.built /\ r.writes = 1)
            /\ r.pc \in {"send_email", "smtp_connect", "smtp_starttls",
                         "smtp_login", "smtp_sendmail", "smtp_finally"}
                  => Len(r.mails) = 1

\* a finished run that wrote, built and notified, once each
C20_Witness ==
    \E p \in Procs :
        LET r == proc[p]
        IN  /\ Done(r)
            /\ r.writes = 1
            /\ Cardinality(BuildCalls(r)) = 2
            /\ r.built
            /\ Len(r.mails) = 1

\* the run invoked build step cmd and it could not be launched
NotLaunched(r, cmd) == \E i \in CallsOf(r, cmd) : r.calls[i].ret = LaunchFailed

\* C15: a build step that cannot be launched is handled like one that
\* returned nonzero.  After a configure step that could not be launched
\* make is not invoked and the result is 1; after a make step that could
\* not be launched the result is 2; in both cases the finished run has made
\* one notification attempt and has ended normally with that result as its
\* exit status.
C15_LaunchFailureIsStepFailure ==
    \A p \in Procs :
        LET r == proc[p]
        IN  /\ NotLaunched(r, "configure") =>
               /\ CallsOf(r, "make") = {}
               /\ r.pc \in FromBuild \cup {"done"}
               /\ r.built /\ r.ret = 1
               /\ Done(r) =>
                     Len(r.mails) = 1 /\ ~r.abnormal /\ r.exit_status = 1
            /\ NotLaunched(r, "make") =>
               /\ r.pc \in FromBuild \cup {"done"}
               /\ r.built /\ r.ret = 2
               /\ Done(r) =>
                     Len(r.mails) = 1 /\ ~r.abnormal /\ r.exit_status = 2

\* send_email got past the token check: it tried to open a session
SessionAttempted(r) ==
    \/ r.pc \in {"smtp_starttls", "smtp_login", "smtp_sendmail",
                 "smtp_finally"}
    \/ Done(r) /\ r.mails # <<>> /\ r.error # "no_token"

\* C16: send_email always releases the session.  Once send_email has
\* returned or raised after trying to open a session, the session is closed
\* and send_email has returned normally; without the credential no session
\* is opened.
C16_SessionAlwaysReleased ==
    \A p \in Procs :
        LET r == proc[p]
        IN  /\ (Done(r) /\ SessionAttempted(r)) =>
               r.session = "closed" /\ ~r.abnormal
            /\ r.error = "no_token" => r.session = "unbound"

\* send_email has resolved the recipients of the run's notification
Resolved(r) ==
    \/ r.pc \in {"smtp_connect", "smtp_starttls", "smtp_login",
                 "smtp_sendmail", "smtp_finally"}
    \/ Done(r) /\ r.mails # <<>>

Contains(s, c) == \E i \in 1..Len(s) : s[i] = c

C18_AtomicReplace ==
    \A p \in Procs :
        LET r == proc[p]
        IN  /\ r.error = "killed" =>
                  sha_file \in {r.start_file, r.src_head_sha}
            /\ (r.error = "empty_sha" /\ r.prior # <<>>) =>
                  r.start_file # <<>>

\* C19: no mutual exclusion between reading and writing the marker.  Two
\* overlapping runs can both pass change detection for the same new head
\* before either writes, and then both build it and both attempt a
\* notification (the witness); a head is built more than once between two
\* advances only when a run was started while another was in progress, so
\* at-most-once holds for serialized runs and only for them.
C19_RebuildOnlyWhenOverlapped == hist.builds >= 2 => hist.raced

\* both runs read the old marker, both built the same head and both tried
\* to notify
C19_Witness ==
    /\ \A p \in Procs :
          /\ Done(proc[p])
          /\ proc[p].src_head_sha = head
          /\ proc[p].last_known_sha # head
          /\ proc[p].built
          /\ Len(proc[p].mails) = 1
    /\ proc[1].last_known_sha = proc[2].last_known_sha
    /\ hist.builds = 2
    /\ hist.raced
====
